---------------------------- MODULE Spec2Model ----------------------------
(***************************************************************************)
(* A model of the streaming CSV session of c_src/csv_parser_nif.c: the     *)
(* single input buffer (struct csv_buffer), the reusable row storage       *)
(* (struct row_buffer / struct cell), the capture list (struct capture),   *)
(* the per-call output batch (struct out_buffer) and the NIF entry points  *)
(* feed, set_capture, parse, parse_one_row and close.                      *)
(*                                                                         *)
(* The tokenizer (libcsv: csv_parse / csv_fini) is not part of the source  *)
(* file; it is modelled from its contract: fields are separated by the     *)
(* delimiter, records end at a line terminator, empty lines are skipped,   *)
(* finalization flushes an unterminated record and resets the tokenizer.   *)
(* Quoting and blank trimming are outside the model: the byte alphabet     *)
(* holds no quote and no blank.                                            *)
(***************************************************************************)
EXTENDS Integers, Sequences, FiniteSets, TLC

VARIABLES
    csv_buffer,     \* struct csv_buffer: data_ptr, size, consumed
    parser,         \* struct csv_parser (tokenizer's resumable state)
    row_buffer,     \* struct row_buffer: cells_ptr, allocated_n, cols_used
    capture,        \* struct capture: indexes_ptr, size
    ret,            \* the term the last NIF call returned
    emitted,        \* history: per row of the last returned batch, how it arose
    rec,            \* history: the record the tokenizer is assembling
    fed,            \* history: every byte of every accepted chunk, in order
    stream,         \* history: every byte handed to the tokenizer so far
    out,            \* history: every row returned so far, in order
    hist,           \* history: close was called, the tokenizer failed, a
                    \* write went through a null pointer
    assert_failed,  \* an assert() of the code was violated
    env             \* environment: input still to be fed, allocation faults

vars == <<csv_buffer, parser, row_buffer, capture, ret, emitted, rec,
          fed, stream, out, hist, assert_failed, env>>

-----------------------------------------------------------------------------
(* Bounds of the model *)

\* total number of bytes the chunks of one behaviour may hold (Spec)
MaxTotal == 3
\* the same, where bytes are fed one at a time (SpecCapture)
MaxCapBytes == 4
\* the same, where the byte stream and the rows are recorded (SpecStream)
MaxStream == 5
\* bytes of short chunks that may precede the long chunk (SpecLong)
MaxPre == 1
\* number of set_capture calls in one behaviour
MaxSetCapture == 1
\* bytes that may be fed where the two parsing calls are compared (SpecEquiv)
MaxEquiv == 4
\* bytes that may be fed where allocations may fail (SpecOom)
MaxOom == 2
MaxStaleSetCapture == 2

-----------------------------------------------------------------------------
(* Program constants *)

MAX_PARSE_SIZE == 128

MAX_ROWS_PER_BATCH_OffByOne == 64 - 1
MAX_ROWS_PER_BATCH == 64

\* slots added by ensure_row_buffer_space
ROW_BUFFER_INCREMENT == 5

\* granularity of align_cell_size
CELL_ALIGN == 16

NULL == "NULL"
PTR == "PTR"

-----------------------------------------------------------------------------
(* Bytes *)

COMMA == ","
NL == "\n"
DataBytes == {"a", "b"}
Bytes == DataBytes \cup {COMMA, NL}

Min(a, b) == IF a < b THEN a ELSE b


-----------------------------------------------------------------------------
(* Cell / RowBuffer: reusable storage *)

\* ceil(size / 16.0) * 16
align_cell_size(size) == ((size + CELL_ALIGN - 1) \div CELL_ALIGN) * CELL_ALIGN

\* allocs (history): how many times the cell's buffer was allocated
empty_cell == [data_ptr |-> NULL, allocated_size |-> 0, data_size |-> 0,
               data |-> <<>>, allocs |-> 0]

\* The buffer is replaced only when it is absent or too small.  A fresh
\* buffer holds no defined bytes until add_cell copies the field into it.
ensure_cell_size_Always(cell, size) ==
    [cell EXCEPT !.data_ptr = PTR,
                 !.allocated_size = align_cell_size(size),
                 !.allocs = cell.allocs + 1]
ensure_cell_size(cell, size) ==
    IF cell.data_ptr = NULL \/ cell.allocated_size < size
    THEN [cell EXCEPT !.data_ptr = PTR,
                      !.allocated_size = align_cell_size(size),
                      !.allocs = cell.allocs + 1]
    ELSE cell

\* capture is [indexes_ptr, indexes]; size is Len(indexes)
is_output_column_FirstOnly(cap, col_i) ==
    IF cap.indexes_ptr = NULL
    THEN TRUE
    ELSE Len(cap.indexes) > 0 /\ cap.indexes[1] = col_i
is_output_column(cap, col_i) ==
    IF cap.indexes_ptr = NULL
    THEN TRUE
    ELSE \E i \in 1..Len(cap.indexes) : cap.indexes[i] = col_i

ensure_row_buffer_space_DropsCells(rb) ==
    IF rb.cols_used = rb.allocated_n
    THEN [rb EXCEPT
            !.cells = [i \in 1..(rb.allocated_n + ROW_BUFFER_INCREMENT)
                          |-> empty_cell],
            !.allocated_n = rb.allocated_n + ROW_BUFFER_INCREMENT,
            !.cells_allocs = rb.cells_allocs + 1]
    ELSE rb
ensure_row_buffer_space(rb) ==
    IF rb.cols_used = rb.allocated_n
    THEN [rb EXCEPT
            !.cells = rb.cells \o [i \in 1..ROW_BUFFER_INCREMENT |-> empty_cell],
            !.allocated_n = rb.allocated_n + ROW_BUFFER_INCREMENT,
            !.cells_allocs = rb.cells_allocs + 1]
    ELSE rb

\* column col_i lives in cells[col_i + 1]
add_cell_KeepsSize(rb0, cap, data) ==
    LET rb == ensure_row_buffer_space(rb0)
        k  == rb.cols_used + 1
        c1 == ensure_cell_size(rb.cells[k], Len(data))
        c2 == [c1 EXCEPT !.data = data]
    IN  IF is_output_column(cap, rb.cols_used)
        THEN [rb EXCEPT !.cells[k] = c2, !.cols_used = rb.cols_used + 1]
        ELSE [rb EXCEPT !.cols_used = rb.cols_used + 1]
add_cell(rb0, cap, data) ==
    LET rb == ensure_row_buffer_space(rb0)
        k  == rb.cols_used + 1
        c1 == ensure_cell_size(rb.cells[k], Len(data))
        c2 == [c1 EXCEPT !.data_size = Len(data), !.data = data]
    IN  IF is_output_column(cap, rb.cols_used)
        THEN [rb EXCEPT !.cells[k] = c2, !.cols_used = rb.cols_used + 1]
        ELSE [rb EXCEPT !.cols_used = rb.cols_used + 1]

\* the bytes make_output_term copies out of a cell
cell_term(cell) == SubSeq(cell.data, 1, cell.data_size)

make_output_terms(rb, cap) ==
    IF cap.indexes_ptr = NULL
    THEN [i \in 1..rb.cols_used |-> cell_term(rb.cells[i])]
    ELSE [i \in 1..Len(cap.indexes) |->
            IF cap.indexes[i] < rb.cols_used
            THEN cell_term(rb.cells[cap.indexes[i] + 1])
            ELSE <<>>]

output_row_length(rb, cap) ==
    IF cap.indexes_ptr # NULL THEN Len(cap.indexes) ELSE rb.cols_used

-----------------------------------------------------------------------------
(* The callback state of one driving call.                                 *)
(*   x.parser, x.row_buffer : the session's tokenizer and row storage      *)
(*   x.rows                 : out_buffer.rows[0 .. row_n)                  *)
(*   x.rec, x.info, x.assert_failed : history                              *)
(*   x.calls      : callbacks run so far in this call                      *)
(*   x.oom_at     : the callback during which enif_alloc returns NULL      *)
(*                  (0: none)                                              *)
(*   x.null_write : a callback wrote through a pointer enif_alloc had      *)
(*                  returned as NULL                                       *)

IdleRec == [fields |-> <<>>, cap |-> [indexes_ptr |-> NULL, indexes |-> <<>>],
            stable |-> TRUE, eob |-> FALSE]

init_callback_state_ResetsRow(p, rb, r, af) ==
    [parser |-> p, row_buffer |-> [rb EXCEPT !.cols_used = 0], rows |-> <<>>,
     rec |-> r, info |-> <<>>, assert_failed |-> af,
     calls |-> 0, oom_at |-> 0, null_write |-> FALSE]
init_callback_state_KeepsRows(p, rb, r, af) ==
    [parser |-> p, row_buffer |-> rb, rows |-> ret.rows, rec |-> r,
     info |-> emitted, assert_failed |-> af,
     calls |-> 0, oom_at |-> 0, null_write |-> FALSE]
init_callback_state(p, rb, r, af) ==
    [parser |-> p, row_buffer |-> rb, rows |-> <<>>, rec |-> r,
     info |-> <<>>, assert_failed |-> af,
     calls |-> 0, oom_at |-> 0, null_write |-> FALSE]

\* The first assert guards out_buffer.rows; when it does not hold the row
\* has no slot to go to.  The array for the row's terms is allocated
\* unchecked: when that allocation fails and the row has a value,
\* make_output_terms writes the first term through NULL.
add_row(x0, cap) ==
    LET x   == [x0 EXCEPT !.calls = x0.calls + 1]
        rb  == x.row_buffer
        row == make_output_terms(rb, cap)
        bad == \/ ~(Len(x.rows) < MAX_ROWS_PER_BATCH)
               \/ Len(row) # output_row_length(rb, cap)
    IN  IF x.oom_at = x.calls /\ output_row_length(rb, cap) > 0
        THEN [x EXCEPT !.null_write = TRUE]
        ELSE IF bad
        THEN [x EXCEPT !.assert_failed = TRUE,
                       !.row_buffer.cols_used = 0,
                       !.rec = IdleRec]
        ELSE [x EXCEPT !.row_buffer.cols_used = 0,
                       !.rows = Append(x.rows, row),
                       !.info = Append(x.info,
                                  [row |-> row, fields |-> x.rec.fields,
                                   rec_cap |-> x.rec.cap, cap |-> cap,
                                   stable |-> x.rec.stable,
                                   eob |-> x.rec.eob,
                                   cols_used |-> rb.cols_used]),
                       !.rec = IdleRec]

\* add_cell's allocations (the slot array, the cell's buffer) are unchecked:
\* when one fails, the slots are initialised, or the field's bytes copied,
\* through NULL.  A failed allocation of zero bytes writes nothing and is
\* left out.
column_callback(x0, cap, data) ==
    LET x   == [x0 EXCEPT !.calls = x0.calls + 1]
        rb  == x.row_buffer
        rb1 == add_cell(rb, cap, data)
        k   == rb.cols_used + 1
        grew   == rb1.cells_allocs # rb.cells_allocs
        before == IF grew THEN 0 ELSE rb.cells[k].allocs
        filled == rb1.cells[k].allocs # before /\ Len(data) > 0
    IN  IF x.oom_at = x.calls /\ (grew \/ filled)
        THEN [x EXCEPT !.null_write = TRUE]
        ELSE [x EXCEPT !.row_buffer = rb1,
                       !.rec.fields = Append(x.rec.fields, data)]

row_callback(x, cap) == add_row(x, cap)

-----------------------------------------------------------------------------
(* The tokenizer (libcsv), from its contract.  pstate is one of            *)
(* ROW_NOT_BEGUN, FIELD_NOT_BEGUN, FIELD_BEGUN; entry is the field being   *)
(* collected.                                                              *)

ROW_NOT_BEGUN == "ROW_NOT_BEGUN"
FIELD_NOT_BEGUN == "FIELD_NOT_BEGUN"
FIELD_BEGUN == "FIELD_BEGUN"

csv_init == [pstate |-> ROW_NOT_BEGUN, entry |-> <<>>]

\* a record begins when the tokenizer leaves ROW_NOT_BEGUN (history only)
BeginRec(x, cap) ==
    IF x.parser.pstate = ROW_NOT_BEGUN
    THEN [x EXCEPT !.rec = [IdleRec EXCEPT !.cap = cap]]
    ELSE x

SUBMIT_FIELD(x, cap) ==
    [column_callback(x, cap, x.parser.entry)
        EXCEPT !.parser = [pstate |-> FIELD_NOT_BEGUN, entry |-> <<>>]]

SUBMIT_ROW(x, cap) ==
    [row_callback(x, cap)
        EXCEPT !.parser = [pstate |-> ROW_NOT_BEGUN, entry |-> <<>>]]

SUBMIT_CHAR(x, c) ==
    [x EXCEPT !.parser = [pstate |-> FIELD_BEGUN,
                          entry |-> Append(x.parser.entry, c)]]

\* one byte through the tokenizer
csv_byte(x, cap, c) ==
    IF x.parser.pstate = ROW_NOT_BEGUN /\ c = NL
    THEN x                                           \* empty line: skipped
    ELSE LET y == BeginRec(x, cap)
         IN  IF c = NL THEN SUBMIT_ROW(SUBMIT_FIELD(y, cap), cap)
             ELSE IF c = COMMA THEN SUBMIT_FIELD(y, cap)
             ELSE SUBMIT_CHAR(y, c)

\* csv_parse over s[i..n]; returns the callback state after the last byte
\* (the bytes are taken in order; the range is halved only to keep the
\* evaluation shallow)
RECURSIVE csv_bytes(_, _, _, _, _)
csv_bytes(x, cap, s, i, n) ==
    IF i > n THEN x
    ELSE IF i = n THEN csv_byte(x, cap, s[i])
    ELSE LET m == (i + n) \div 2
             y == csv_bytes(x, cap, s, i, m)
         IN  IF y.parser.pstate = ROW_NOT_BEGUN
             THEN csv_bytes(y, cap, s, m + 1, n)
             ELSE csv_bytes(y, cap, s, m + 1, n)

\* csv_parse(p, s, len, cb1, cb2, data): the tokenizer stops early, at byte
\* stop < Len(s), only when it cannot grow its own field buffer; the value
\* returned is the number of bytes it took.
csv_parse(x, cap, s, stop) ==
    LET n == Min(stop, Len(s))
    IN  [x |-> csv_bytes(x, cap, s, 1, n), taken |-> n]

\* csv_fini: an unterminated record is submitted, the tokenizer is reset
csv_fini(x, cap) ==
    LET y == IF x.parser.pstate = ROW_NOT_BEGUN
             THEN x
             ELSE SUBMIT_ROW(SUBMIT_FIELD(x, cap), cap)
    IN  [x |-> [y EXCEPT !.parser = csv_init], status |-> 0]

-----------------------------------------------------------------------------
(* InputBuffer *)

is_csv_buffer_empty_NoCursor(b) ==
    b.data_ptr = NULL \/ b.size = 0
is_csv_buffer_empty(b) ==
    b.data_ptr = NULL \/ b.size = 0 \/ b.consumed >= b.size

\* bytes fed and not yet pulled
Remaining(b) == IF is_csv_buffer_empty(b) THEN 0 ELSE b.size - b.consumed

\* returns the chunk pulled and the buffer with its cursor advanced
get_csv_chunk_AdvancesMax(b, max_len) ==
    IF is_csv_buffer_empty(b)
    THEN [chunk |-> <<>>, buf |-> b]
    ELSE LET bytes_read == Min(b.size - b.consumed, max_len)
         IN  [chunk |-> SubSeq(b.data, b.consumed + 1, b.consumed + bytes_read),
              buf   |-> [b EXCEPT !.consumed = b.consumed + max_len]]
get_csv_chunk_NoAdvance(b, max_len) ==
    IF is_csv_buffer_empty(b)
    THEN [chunk |-> <<>>, buf |-> b]
    ELSE LET bytes_read == Min(b.size - b.consumed, max_len)
         IN  [chunk |-> SubSeq(b.data, b.consumed + 1, b.consumed + bytes_read),
              buf   |-> b]
get_csv_chunk(b, max_len) ==
    IF is_csv_buffer_empty(b)
    THEN [chunk |-> <<>>, buf |-> b]
    ELSE LET bytes_read == Min(b.size - b.consumed, max_len)
         IN  [chunk |-> SubSeq(b.data, b.consumed + 1, b.consumed + bytes_read),
              buf   |-> [b EXCEPT !.consumed = b.consumed + bytes_read]]

-----------------------------------------------------------------------------
(* Inputs *)

RECURSIVE SeqsUpTo(_, _)
\* every sequence over S of length at most n
SeqsUpTo(S, n) ==
    IF n = 0 THEN {<<>>}
    ELSE LET shorter == SeqsUpTo(S, n - 1)
         IN  shorter \cup {Append(q, e) : q \in {t \in shorter : Len(t) = n - 1},
                                           e \in S}

\* unit repeated k times
Repeat(unit, k) ==
    [i \in 1..(k * Len(unit)) |-> unit[((i - 1) % Len(unit)) + 1]]

\* chunks longer than one parse() pull: enough two-byte units to pass it
LongReps == MAX_PARSE_SIZE \div 2 + 1
LongChunks ==
    { Repeat(<<NL, "a">>, LongReps),
      Repeat(<<"a", NL>>, LongReps),
      Repeat(<<"a", COMMA>>, LongReps) \o <<NL>>,
      Repeat(<<NL>>, 2 * LongReps) }

FeedChoices(e) ==
    SeqsUpTo(Bytes, Min(e.budget, e.chunk))
    \cup (IF e.longs > 0 THEN LongChunks ELSE {})

\* proper lists of non-negative integers, and terms set_capture rejects
CaptureLists == { <<>>, <<1>>, <<0, 0>>, <<1, 0, 3>> }
\* a set_capture argument: a proper list of unsigned integers, a term that
\* is no proper list, or a list with an element that is no unsigned integer
CaptureArgs ==
    {[kind |-> "list", items |-> l] : l \in CaptureLists}
    \cup {[kind |-> "improper_list", items |-> <<0>>],
          [kind |-> "not_a_uint", items |-> <<1>>]}

-----------------------------------------------------------------------------
(* Returned terms *)

Ret(op, res, rows) == [op |-> op, res |-> res, rows |-> rows]

OK == "ok"
EOB == "eob"
BUFFER_NOT_EMPTY == "csv buffer not empty"
ALLOC_FAILED == "could not allocate csv buffer"
CSV_PARSE_FAILED == "csv_parse failed"
CSV_FINI_FAILED == "csv_fini failed"
BADARG == "badarg"

-----------------------------------------------------------------------------
(* Initial state: init_state, csv_init.  init_csv_buffer leaves consumed   *)
(* unset, so it starts with whatever the allocation held.                  *)

InitSession(e) ==
    /\ csv_buffer \in {[data_ptr |-> NULL, data |-> <<>>, size |-> 0,
                        consumed |-> u] : u \in {0, 3}}
    /\ parser = csv_init
    /\ row_buffer = [cells |-> <<>>, allocated_n |-> 0, cols_used |-> 0,
                     cells_allocs |-> 0]
    /\ capture = [indexes_ptr |-> NULL, indexes |-> <<>>]
    /\ ret = Ret("init", OK, <<>>)
    /\ emitted = <<>>
    /\ rec = IdleRec
    /\ fed = <<>>
    /\ stream = <<>>
    /\ out = <<>>
    /\ hist = [closed |-> FALSE, failed |-> FALSE, null_write |-> FALSE]
    /\ assert_failed = FALSE
    /\ env = e

\* env: budget  - bytes that may still be fed in short chunks
\*      chunk   - the longest short chunk
\*      longs   - long chunks that may still be fed
\*      setcaps - set_capture calls that may still be made
\*      oom     - allocations (the session's and the tokenizer's) may fail
\*      trace   - fed, stream and out are recorded
Init == InitSession([budget |-> MaxTotal, chunk |-> MaxTotal, longs |-> 0,
                     setcaps |-> MaxSetCapture, oom |-> FALSE,
                     trace |-> FALSE])

InitStream == InitSession([budget |-> MaxStream, chunk |-> MaxStream,
                           longs |-> 0,
                           setcaps |-> 0, oom |-> FALSE, trace |-> TRUE])

InitCapture == InitSession([budget |-> MaxCapBytes, chunk |-> 1, longs |-> 0,
                            setcaps |-> MaxSetCapture, oom |-> FALSE,
                            trace |-> FALSE])

InitLong == InitSession([budget |-> MaxPre, chunk |-> MaxPre, longs |-> 1,
                         setcaps |-> 0, oom |-> FALSE, trace |-> FALSE])

InitEquiv == InitSession([budget |-> MaxEquiv, chunk |-> MaxEquiv,
                          longs |-> 0, setcaps |-> MaxSetCapture,
                          oom |-> FALSE, trace |-> FALSE])

InitWide == InitSession([budget |-> MaxPre, chunk |-> MaxPre, longs |-> 1,
                         setcaps |-> MaxSetCapture, oom |-> FALSE,
                         trace |-> FALSE])

InitStale == InitSession([budget |-> MaxCapBytes, chunk |-> 1, longs |-> 0,
                          setcaps |-> MaxStaleSetCapture, oom |-> FALSE,
                          trace |-> FALSE])

InitOom == InitSession([budget |-> MaxOom, chunk |-> MaxOom, longs |-> 0,
                        setcaps |-> MaxSetCapture, oom |-> TRUE,
                        trace |-> FALSE])

-----------------------------------------------------------------------------
(* feed *)

feed_QueuesRejected(bin, alloc_ok) ==
    IF is_csv_buffer_empty(csv_buffer) = FALSE
    THEN /\ csv_buffer' = [csv_buffer EXCEPT !.data = csv_buffer.data \o bin,
                                             !.size = csv_buffer.size + Len(bin)]
         /\ ret' = Ret("feed", BUFFER_NOT_EMPTY, <<>>)
         /\ env' = [env EXCEPT !.budget = env.budget - Len(bin)]
         /\ UNCHANGED fed
    ELSE /\ csv_buffer' = [data_ptr |-> PTR, data |-> bin, size |-> Len(bin),
                           consumed |-> 0]
         /\ ret' = Ret("feed", OK, <<>>)
         /\ fed' = IF env.trace THEN fed \o bin ELSE fed
         /\ env' = [env EXCEPT !.budget = env.budget - Len(bin)]
feed(bin, alloc_ok) ==
    IF is_csv_buffer_empty(csv_buffer) = FALSE
    THEN /\ ret' = Ret("feed", BUFFER_NOT_EMPTY, <<>>)
         /\ UNCHANGED <<csv_buffer, fed, env>>
    ELSE IF ~alloc_ok
    THEN /\ csv_buffer' = [csv_buffer EXCEPT !.data_ptr = NULL, !.data = <<>>]
         /\ ret' = Ret("feed", ALLOC_FAILED, <<>>)
         /\ UNCHANGED <<fed, env>>
    ELSE /\ csv_buffer' = [data_ptr |-> PTR, data |-> bin, size |-> Len(bin),
                           consumed |-> 0]
         /\ ret' = Ret("feed", OK, <<>>)
         /\ fed' = IF env.trace THEN fed \o bin ELSE fed
         /\ env' = IF bin \in LongChunks
                   THEN [env EXCEPT !.longs = env.longs - 1]
                   ELSE [env EXCEPT !.budget = env.budget - Len(bin)]

\* what enif_alloc may answer
AllocChoices == IF env.oom THEN BOOLEAN ELSE {TRUE}

Feed ==
    \E bin \in FeedChoices(env), alloc_ok \in AllocChoices :
        /\ ~hist.null_write
        /\ feed(bin, alloc_ok)
        /\ emitted' = <<>>
        /\ UNCHANGED <<parser, row_buffer, capture, rec, stream, out, hist,
                       assert_failed>>

-----------------------------------------------------------------------------
(* set_capture *)

SIGSEGV == "segmentation fault"

\* update_capture: a malformed list leaves the capture as it was.  The new
\* array is allocated unchecked: extract_capture_list writes its first
\* element through NULL when the allocation failed, and a failed allocation
\* for the empty list installs NULL, which reads as "no capture".
update_capture_EmptyIsNone(list, alloc_ok) ==
    IF list.kind # "list"
    THEN [done |-> FALSE, capture |-> capture, null_write |-> FALSE]
    ELSE [done |-> TRUE,
          capture |-> [indexes_ptr |-> IF list.items = <<>> THEN NULL ELSE PTR,
                       indexes |-> list.items],
          null_write |-> FALSE]
update_capture_ClearsOnError(list, alloc_ok) ==
    IF list.kind # "list"
    THEN [done |-> FALSE,
          capture |-> [indexes_ptr |-> NULL, indexes |-> <<>>],
          null_write |-> FALSE]
    ELSE [done |-> TRUE,
          capture |-> [indexes_ptr |-> PTR, indexes |-> list.items],
          null_write |-> FALSE]
update_capture(list, alloc_ok) ==
    IF list.kind # "list"
    THEN [done |-> FALSE, capture |-> capture, null_write |-> FALSE]
    ELSE IF ~alloc_ok /\ Len(list.items) > 0
    THEN [done |-> FALSE, capture |-> capture, null_write |-> TRUE]
    ELSE [done |-> TRUE,
          capture |-> [indexes_ptr |-> IF alloc_ok THEN PTR ELSE NULL,
                       indexes |-> IF alloc_ok THEN list.items ELSE <<>>],
          null_write |-> FALSE]

\* env.setcaps bounds the calls that pass a proper list; a rejected call
\* changes nothing and is always possible
SetCapture ==
    /\ ~hist.null_write
    /\ \E list \in CaptureArgs, alloc_ok \in AllocChoices :
          LET u == update_capture(list, alloc_ok)
          IN  /\ list.kind = "list" => env.setcaps > 0
              /\ capture' = u.capture
              /\ ret' = Ret("set_capture",
                            IF u.null_write THEN SIGSEGV
                            ELSE IF u.done THEN OK ELSE BADARG, <<>>)
              /\ hist' = [hist EXCEPT !.null_write = u.null_write]
              /\ rec' = IF parser.pstate # ROW_NOT_BEGUN /\ u.capture # capture
                        THEN [rec EXCEPT !.stable = FALSE]
                        ELSE rec
              /\ env' = IF list.kind = "list"
                        THEN [env EXCEPT !.setcaps = env.setcaps - 1]
                        ELSE env
    /\ emitted' = <<>>
    /\ UNCHANGED <<csv_buffer, parser, row_buffer, fed, stream, out,
                   assert_failed>>

-----------------------------------------------------------------------------
(* Driving calls.  A driving call ends in                                  *)
(*   [x: callback state, buf: csv_buffer, res: result, taken: bytes the    *)
(*    tokenizer took]                                                      *)

\* where the tokenizer may stop in a pull of n bytes: n is "not at all"
StopChoices(n) == IF env.oom THEN 0..n ELSE {n}

make_output(x) == x.rows

\* the callback of a driving call during which enif_alloc may fail: one of
\* at most n, or none
OomChoices(n) == IF env.oom THEN 0..n ELSE {0}

\* what a finished driving call leaves in the session and its history; a
\* call that wrote through NULL does not return
Finish(op, d) ==
    IF d.x.null_write
    THEN /\ ret' = Ret(op, SIGSEGV, <<>>)
         /\ emitted' = <<>>
         /\ hist' = [hist EXCEPT !.null_write = TRUE]
         /\ UNCHANGED <<csv_buffer, parser, row_buffer, rec, stream, out,
                        assert_failed, capture, fed, env>>
    ELSE /\ csv_buffer' = d.buf
         /\ parser' = d.x.parser
         /\ row_buffer' = d.x.row_buffer
         /\ ret' = Ret(op, d.res, IF d.res = OK THEN make_output(d.x) ELSE <<>>)
         /\ emitted' = IF d.res = OK THEN d.x.info ELSE <<>>
         /\ rec' = IF d.res = EOB /\ d.x.parser.pstate # ROW_NOT_BEGUN
                   THEN [d.x.rec EXCEPT !.eob = TRUE]
                   ELSE d.x.rec
         /\ stream' = IF env.trace THEN stream \o d.taken ELSE stream
         /\ out' = IF env.trace /\ d.res = OK
                   THEN out \o make_output(d.x) ELSE out
         /\ assert_failed' = d.x.assert_failed
         /\ hist' = [hist EXCEPT
                       !.closed = hist.closed \/ op = "close",
                       !.failed = hist.failed \/ d.res = CSV_PARSE_FAILED]
         /\ UNCHANGED <<capture, fed, env>>

\* parse on a session given by its parts: input buffer, tokenizer, row
\* storage, capture (and the history that rides along)
do_parse_EobWithoutRows(b, p, rb, cap, r, af, stop, oom_at) ==
    LET g == get_csv_chunk(b, MAX_PARSE_SIZE)
        x == [init_callback_state(p, rb, r, af) EXCEPT !.oom_at = oom_at]
        t == csv_parse(x, cap, g.chunk, stop)
    IN  IF Len(g.chunk) = 0 \/ Len(t.x.rows) = 0
        THEN [x |-> t.x, buf |-> g.buf, res |-> EOB, taken |-> <<>>]
        ELSE [x |-> t.x, buf |-> g.buf,
              res |-> IF t.taken # Len(g.chunk) THEN CSV_PARSE_FAILED ELSE OK,
              taken |-> SubSeq(g.chunk, 1, t.taken)]
do_parse(b, p, rb, cap, r, af, stop, oom_at) ==
    LET g == get_csv_chunk(b, MAX_PARSE_SIZE)
        x == [init_callback_state(p, rb, r, af) EXCEPT !.oom_at = oom_at]
        t == csv_parse(x, cap, g.chunk, stop)
    IN  IF Len(g.chunk) = 0
        THEN [x |-> x, buf |-> g.buf, res |-> EOB, taken |-> <<>>]
        ELSE [x |-> t.x, buf |-> g.buf,
              res |-> IF t.taken # Len(g.chunk) THEN CSV_PARSE_FAILED ELSE OK,
              taken |-> SubSeq(g.chunk, 1, t.taken)]

parse(stop, oom_at) ==
    do_parse(csv_buffer, parser, row_buffer, capture, rec, assert_failed,
             stop, oom_at)

\* a byte runs at most two callbacks
Parse ==
    \E stop \in StopChoices(Min(MAX_PARSE_SIZE, Remaining(csv_buffer))),
       oom_at \in OomChoices(2 * Min(MAX_PARSE_SIZE, Remaining(csv_buffer))) :
        /\ ~hist.null_write
        /\ Finish("parse", parse(stop, oom_at))

RUNNING == "running"

\* one pass of the while loop of parse_one_row, its condition included; the
\* tokenizer refuses its byte in pass number fail_it
one_row_pass_PullsTwo(r, cap, fail_it) ==
    IF Len(r.x.rows) # 0
    THEN [r EXCEPT !.res = OK]
    ELSE LET g == get_csv_chunk(r.buf, 2)
             p == csv_parse(r.x, cap, g.chunk,
                            IF r.it = fail_it THEN 0 ELSE 1)
         IN  IF Len(g.chunk) = 0
             THEN [r EXCEPT !.buf = g.buf, !.res = EOB]
             ELSE IF p.taken # Min(1, Len(g.chunk))
             THEN [r EXCEPT !.x = p.x, !.buf = g.buf, !.res = CSV_PARSE_FAILED]
             ELSE [r EXCEPT !.x = p.x, !.buf = g.buf,
                            !.taken = r.taken \o SubSeq(g.chunk, 1, 1),
                            !.it = r.it + 1]
one_row_pass(r, cap, fail_it) ==
    IF Len(r.x.rows) # 0
    THEN [r EXCEPT !.res = OK]
    ELSE LET g == get_csv_chunk(r.buf, 1)
             p == csv_parse(r.x, cap, g.chunk,
                            IF r.it = fail_it THEN 0 ELSE 1)
         IN  IF Len(g.chunk) = 0
             THEN [r EXCEPT !.buf = g.buf, !.res = EOB]
             ELSE IF p.taken # Len(g.chunk)
             THEN [r EXCEPT !.x = p.x, !.buf = g.buf, !.res = CSV_PARSE_FAILED]
             ELSE [r EXCEPT !.x = p.x, !.buf = g.buf,
                            !.taken = r.taken \o g.chunk, !.it = r.it + 1]

\* at most k passes, in order, stopping at the first that returns (the
\* count is halved only to keep the evaluation shallow)
RECURSIVE one_row_loop(_, _, _, _)
one_row_loop(r, cap, k, fail_it) ==
    IF r.res # RUNNING \/ k = 0 THEN r
    ELSE IF k = 1 THEN one_row_pass(r, cap, fail_it)
    ELSE LET h == one_row_loop(r, cap, k \div 2, fail_it)
         IN  IF h.res # RUNNING THEN h
             ELSE one_row_loop(h, cap, k - (k \div 2), fail_it)

\* parse_one_row on a session given by its parts; the loop returns within
\* one pass per unconsumed byte and one more
do_parse_one_row(b, p, rb, cap, r, af, fail_it, oom_at) ==
    LET l == one_row_loop(
                [x |-> [init_callback_state(p, rb, r, af)
                           EXCEPT !.oom_at = oom_at],
                 buf |-> b, res |-> RUNNING, taken |-> <<>>, it |-> 1],
                cap, Remaining(b) + 2, fail_it)
    IN  [x |-> l.x, buf |-> l.buf, res |-> l.res, taken |-> l.taken]

\* a parse_one_row that pulls as parse does
parse_one_row_AsParse(fail_it, oom_at) ==
    do_parse(csv_buffer, parser, row_buffer, capture, rec, assert_failed,
             MAX_PARSE_SIZE, oom_at)
parse_one_row(fail_it, oom_at) ==
    do_parse_one_row(csv_buffer, parser, row_buffer, capture, rec,
                     assert_failed, fail_it, oom_at)

ParseOneRow ==
    \E fail_it \in (IF env.oom THEN 0..Remaining(csv_buffer) ELSE {0}),
       oom_at \in OomChoices(2 * Remaining(csv_buffer)) :
        /\ ~hist.null_write
        /\ Finish("parse_one_row", parse_one_row(fail_it, oom_at))

\* close: csv_fini only; the input buffer is not read
close(oom_at) ==
    LET x == [init_callback_state(parser, row_buffer, rec, assert_failed)
                 EXCEPT !.oom_at = oom_at]
        f == csv_fini(x, capture)
    IN  [x |-> f.x, buf |-> csv_buffer,
         res |-> IF f.status # 0 THEN CSV_FINI_FAILED ELSE OK,
         taken |-> <<>>]

Close ==
    \E oom_at \in OomChoices(2) :
        /\ ~hist.null_write
        /\ Finish("close", close(oom_at))

-----------------------------------------------------------------------------

Next == Feed \/ SetCapture \/ Parse \/ ParseOneRow \/ Close

Spec == Init /\ [][Next]_vars

\* feed and the two parsing calls only, with the byte stream recorded
NextStream == Feed \/ Parse \/ ParseOneRow

SpecStream == InitStream /\ [][NextStream]_vars

\* set_capture between single-byte feeds, each byte parsed as it arrives
NextCapture == Feed \/ SetCapture \/ Parse

SpecCapture == InitCapture /\ [][NextCapture]_vars

\* every call but set_capture, with chunks longer than one parse() pull
NextLong == Feed \/ Parse \/ ParseOneRow \/ Close

SpecLong == InitLong /\ [][NextLong]_vars

\* feed, set_capture and the two parsing calls, with chunks that hold two
\* records
NextEquiv == Feed \/ SetCapture \/ Parse \/ ParseOneRow

SpecEquiv == InitEquiv /\ [][NextEquiv]_vars

SpecOom == InitOom /\ [][Next]_vars

\* one-byte chunks with the capture list replaced up to MaxStaleSetCapture
\* times
SpecStale == InitStale /\ [][NextCapture]_vars

\* every call, with a long chunk and set_capture
SpecWide == InitWide /\ [][Next]_vars

-----------------------------------------------------------------------------
(* Properties *)

\* the input buffer still holds bytes no driving call has pulled
Unconsumed(b) == b.data_ptr # NULL /\ b.size # 0 /\ b.consumed < b.size

\* C1 - single-buffering: a feed is refused with "csv buffer not empty", and
\* leaves the buffer alone, exactly when the buffer holds unconsumed bytes
\* (consumed < size); when the buffer is absent, zero-length or fully
\* consumed the feed succeeds, installs the chunk and resets the cursor.
C1_SingleBuffering ==
    [][ret'.op = "feed" =>
          IF Unconsumed(csv_buffer)
          THEN ret'.res = BUFFER_NOT_EMPTY /\ csv_buffer' = csv_buffer
          ELSE /\ ret'.res = OK
               /\ csv_buffer'.consumed = 0
               /\ csv_buffer'.size = Len(csv_buffer'.data)
               /\ fed' = fed \o csv_buffer'.data]_vars

\* a feed was refused although a driving call had consumed part of the chunk
C1_Witness ==
    /\ ret.op = "feed"
    /\ ret.res = BUFFER_NOT_EMPTY
    /\ 0 < csv_buffer.consumed
    /\ csv_buffer.consumed < csv_buffer.size

\* C2 - batch bound: no parse() call adds a row to a full out_buffer (the
\* assertion row_n < MAX_ROWS_PER_BATCH of add_row holds), so a batch has at
\* most MAX_ROWS_PER_BATCH rows, also when the call starts inside a record.
C2_BatchBound ==
    /\ ~assert_failed
    /\ Len(ret.rows) <= MAX_ROWS_PER_BATCH

\* a parse() that pulled MAX_PARSE_SIZE bytes, the first of which ended the
\* record left in progress by an earlier call, and returned a full batch
C2_Witness ==
    /\ ret.op = "parse"
    /\ ret.res = OK
    /\ Len(ret.rows) = MAX_ROWS_PER_BATCH
    /\ csv_buffer.consumed = MAX_PARSE_SIZE
    /\ csv_buffer.data[1] = NL
    /\ emitted[1].fields = << <<"a">> >>

\* C3 - close flushes fed-but-unparsed input: when close() returns, no fed
\* byte is left untokenized; a session fed the one chunk "a,b" and closed
\* with no parsing call before returns the single row [a, b].
C3_CloseFlushesFedInput ==
    (ret.op = "close" /\ ret.res = OK) =>
        /\ Remaining(csv_buffer) = 0
        /\ (csv_buffer.data = <<"a", COMMA, "b">> /\ env.budget = 0) =>
               ret.rows = << << <<"a">>, <<"b">> >> >>

\* C4 - close is terminal: once close() has returned, every later driving
\* call (parse, parse_one_row, close) fails with a fatal error, returning no
\* rows.
C4_CloseIsTerminal ==
    [][(hist.closed /\ ret'.op \in {"parse", "parse_one_row", "close"}) =>
          /\ ret'.res \in {CSV_PARSE_FAILED, CSV_FINI_FAILED}
          /\ ret'.rows = <<>>]_vars

\* the projection of a record's fields by a capture list, as specified:
\* position k holds column indexes[k] when the record has it, else nothing
Project(cap, fields) ==
    IF cap.indexes_ptr = NULL
    THEN fields
    ELSE [k \in 1..Len(cap.indexes) |->
            IF cap.indexes[k] < Len(fields)
            THEN fields[cap.indexes[k] + 1]
            ELSE <<>>]

\* C5 - projection correctness: a row emitted for a record during the whole
\* of which one capture list was in effect holds, at each position k, the
\* bytes of column indexes[k] of that record when indexes[k] < cols_used and
\* a zero-length value otherwise.
C5_ProjectionCorrect ==
    \A i \in 1..Len(emitted) :
        LET e == emitted[i]
        IN  (e.cap.indexes_ptr # NULL /\ e.stable /\ e.rec_cap = e.cap) =>
                /\ e.cols_used = Len(e.fields)
                /\ Len(e.row) = Len(e.cap.indexes)
                /\ \A k \in 1..Len(e.cap.indexes) :
                      e.row[k] = IF e.cap.indexes[k] < e.cols_used
                                 THEN e.fields[e.cap.indexes[k] + 1]
                                 ELSE <<>>

\* the record [a, b] projected by the list [1, 0, 3] came out as [b, a, ""]
C5_Witness ==
    \E i \in 1..Len(emitted) :
        /\ emitted[i].cap.indexes_ptr # NULL
        /\ emitted[i].cap.indexes = <<1, 0, 3>>
        /\ emitted[i].stable /\ emitted[i].rec_cap = emitted[i].cap
        /\ emitted[i].fields = << <<"a">>, <<"b">> >>
        /\ emitted[i].row = << <<"b">>, <<"a">>, <<>> >>

\* C6 - no-capture identity: while no capture list has been set, every row
\* emitted is the full sequence of fields the tokenizer delivered for the
\* record, in order, cols_used long.
C6_NoCaptureIdentity ==
    \A i \in 1..Len(emitted) :
        emitted[i].cap.indexes_ptr = NULL =>
            /\ emitted[i].row = emitted[i].fields
            /\ Len(emitted[i].row) = emitted[i].cols_used

\* a one-column row came out of a row buffer whose second cell an earlier,
\* wider row had written
C6_Witness ==
    /\ capture.indexes_ptr = NULL
    /\ \E i \in 1..Len(emitted) :
          /\ Len(emitted[i].fields) = 1
          /\ emitted[i].row = emitted[i].fields
    /\ row_buffer.allocated_n >= 2
    /\ row_buffer.cells[2].data_ptr # NULL

\* C9 - set_capture takes effect from the next record on: every row is the
\* projection of its record by the capture setting that was active when the
\* record began.
C9_CaptureFromNextRow ==
    \A i \in 1..Len(emitted) :
        emitted[i].row = Project(emitted[i].rec_cap, emitted[i].fields)

-----------------------------------------------------------------------------
(* The records of a byte stream, read off the stream as a whole: the       *)
(* stream is cut at every newline, empty lines are no records, and a line  *)
(* is cut into fields at every comma.                                      *)

\* the pieces of s between occurrences of sep, in order
SplitAt(s, sep) ==
    LET P == {i \in 1..Len(s) : s[i] = sep}
        n == Cardinality(P)
        pos(k) == IF k = 0 THEN 0
                  ELSE IF k = n + 1 THEN Len(s) + 1
                  ELSE CHOOSE i \in P : Cardinality({j \in P : j < i}) = k - 1
    IN  [k \in 1..(n + 1) |-> SubSeq(s, pos(k - 1) + 1, pos(k) - 1)]

NonEmpty(l) == l # <<>>

\* the complete records of s
RefRecords(s) ==
    LET L == SplitAt(s, NL)
        lines == SelectSeq(SubSeq(L, 1, Len(L) - 1), NonEmpty)
    IN  [k \in 1..Len(lines) |-> SplitAt(lines[k], COMMA)]

\* the fields of the unterminated record s ends in, the last one in progress
RefPending(s) ==
    LET L == SplitAt(s, NL)
        tail == L[Len(L)]
    IN  IF tail = <<>> THEN <<>> ELSE SplitAt(tail, COMMA)

\* the record the session is holding: the fields written to the row buffer
\* and the tokenizer's field in progress
Pending ==
    IF parser.pstate = ROW_NOT_BEGUN
    THEN <<>>
    ELSE [k \in 1..row_buffer.cols_used |-> cell_term(row_buffer.cells[k])]
         \o <<parser.entry>>

\* the bytes of the input buffer no driving call has pulled
Rest(b) ==
    IF is_csv_buffer_empty(b) THEN <<>>
    ELSE SubSeq(b.data, b.consumed + 1, b.size)

\* C7 - Eob then resume: the tokenizer has been given exactly the fed bytes
\* the calls pulled, in order; the rows returned so far are the complete
\* records of those bytes, each once and intact, however the bytes were cut
\* into chunks and whatever Eobs and feeds came between; the record cut off
\* by the end of a chunk is still held (fields in the row buffer, field in
\* progress in the tokenizer); parse() returns Eob only with the buffer
\* drained, and leaves the held record as it was.
C7_EobThenResume ==
    /\ Len(stream) = Len(fed) - Remaining(csv_buffer)
    /\ stream = SubSeq(fed, 1, Len(stream))
    /\ out = RefRecords(stream)
    /\ Pending = RefPending(stream)
    /\ (ret.op = "parse" /\ ret.res = EOB) =>
           /\ Remaining(csv_buffer) = 0
           /\ ret.rows = <<>>

\* a record that was cut off by an Eob came out of a later parse() as [a, b]
C7_Witness ==
    /\ ret.op = "parse"
    /\ ret.res = OK
    /\ \E i \in 1..Len(emitted) :
          /\ emitted[i].eob
          /\ emitted[i].row = << <<"a">>, <<"b">> >>

\* C10 - parseOneRow cardinality: a parse_one_row call returns ok or eob;
\* eob exactly when no record completes in the bytes still unconsumed, and
\* then with the buffer drained; ok with exactly one row, having pulled
\* bytes up to and including the newline that completes that row and no
\* further, the later bytes of the chunk left unconsumed.
C10_OneRowCardinality ==
    [][ret'.op = "parse_one_row" =>
          LET before == Len(RefRecords(stream))
              avail  == Len(RefRecords(stream \o Rest(csv_buffer))) - before
              pulled == Len(stream') - Len(stream)
          IN  /\ ret'.res \in {OK, EOB}
              /\ (ret'.res = EOB) <=> (avail = 0)
              /\ ret'.res = EOB =>
                    /\ ret'.rows = <<>>
                    /\ Remaining(csv_buffer') = 0
              /\ ret'.res = OK =>
                    /\ Len(ret'.rows) = 1
                    /\ pulled > 0
                    /\ stream'[Len(stream')] = NL
                    /\ Len(RefRecords(stream')) = before + 1
                    /\ Len(RefRecords(SubSeq(stream', 1, Len(stream') - 1)))
                          = before
                    /\ Rest(csv_buffer') =
                          SubSeq(Rest(csv_buffer), pulled + 1,
                                 Len(Rest(csv_buffer)))]_vars

\* parse_one_row returned one row and left later bytes of the chunk unread
C10_Witness ==
    /\ ret.op = "parse_one_row"
    /\ ret.res = OK
    /\ Len(ret.rows) = 1
    /\ Remaining(csv_buffer) > 0
    /\ env.trace

-----------------------------------------------------------------------------
(* Draining the input buffer with one kind of parsing call: the call is    *)
(* repeated until it returns something other than ok.                      *)
(*   s.b, s.p, s.rb : input buffer, tokenizer, row storage                 *)
(*   s.rows         : the batches returned so far, concatenated            *)
(*   s.res          : the last result                                      *)

Session ==
    [b |-> csv_buffer, p |-> parser, rb |-> row_buffer, r |-> rec,
     af |-> assert_failed, rows |-> <<>>, res |-> OK]

AfterCall(s, d) ==
    [b |-> d.buf, p |-> d.x.parser, rb |-> d.x.row_buffer, r |-> d.x.rec,
     af |-> d.x.assert_failed,
     rows |-> IF d.res = OK THEN s.rows \o make_output(d.x) ELSE s.rows,
     res |-> d.res]

RECURSIVE drain_parse(_, _)
drain_parse(s, cap) ==
    LET t == AfterCall(s, do_parse(s.b, s.p, s.rb, cap, s.r, s.af,
                                   MAX_PARSE_SIZE, 0))
    IN  IF t.res = OK THEN drain_parse(t, cap) ELSE t

RECURSIVE drain_parse_one_row(_, _)
drain_parse_one_row(s, cap) ==
    LET t == AfterCall(s, do_parse_one_row(s.b, s.p, s.rb, cap, s.r, s.af,
                                           0, 0))
    IN  IF t.res = OK THEN drain_parse_one_row(t, cap) ELSE t

\* C8 - row-at-a-time equivalence: from any state of a session, whatever
\* the capture setting, repeating parse_one_row until eob and repeating
\* parse until eob return the same rows in the same order and leave the
\* session (tokenizer, row storage, input buffer) in the same state, so the
\* two ways of driving stay row for row equal over every following chunk.
C8_RowAtATimeEquivalence ==
    LET byRow   == drain_parse_one_row(Session, capture)
        byBatch == drain_parse(Session, capture)
    IN  /\ byRow.res = EOB
        /\ byBatch.res = EOB
        /\ byRow.rows = byBatch.rows
        /\ byRow.p = byBatch.p
        /\ byRow.rb = byBatch.rb
        /\ byRow.b = byBatch.b
        /\ byRow.af = byBatch.af

\* parse_one_row returned the first record of a chunk under a capture list,
\* and the chunk holds another record that either call would return next
C8_Witness ==
    /\ ret.op = "parse_one_row"
    /\ ret.res = OK
    /\ capture.indexes_ptr # NULL
    /\ Len(capture.indexes) > 0
    /\ Remaining(csv_buffer) > 0
    /\ Len(drain_parse(Session, capture).rows) > 0

-----------------------------------------------------------------------------

DrivingOps == {"parse", "parse_one_row", "close"}

\* C11 - capture fixes row width: a successful set_capture leaves a capture
\* list in place, the empty list included (it is not "no capture"); while a
\* list of length n is in place every row returned by parse, parse_one_row
\* or close has exactly n values, whatever the width of the record, and
\* add_row's width assertion holds.
C11_CaptureFixesWidth ==
    /\ ~assert_failed
    /\ (ret.op = "set_capture" /\ ret.res = OK) => capture.indexes_ptr # NULL
    /\ (ret.op \in DrivingOps /\ capture.indexes_ptr # NULL) =>
           /\ \A i \in 1..Len(ret.rows) :
                 Len(ret.rows[i]) = Len(capture.indexes)
           /\ \A i \in 1..Len(emitted) :
                 Len(emitted[i].row) = Len(emitted[i].cap.indexes)

\* under the empty list, close returned a record of one field as a row of
\* no values
C11_Witness ==
    /\ ret.op = "close"
    /\ ret.res = OK
    /\ capture.indexes_ptr # NULL
    /\ capture.indexes = <<>>
    /\ ret.rows = << <<>> >>
    /\ emitted[1].cols_used = 1

\* C12 - allocation failures are surfaced as errors: whichever allocation
\* of an operation fails, the operation returns (an error), and no write
\* goes through a pointer the failed allocation returned.
C12_AllocFailuresSurfaced ==
    /\ ~hist.null_write
    /\ ret.res # SIGSEGV

\* allocations a cell may have had: the first, and one for every step its
\* capacity has grown since
AllocsWithin(c, c1) ==
    (c1.allocated_size - c.allocated_size) \div CELL_ALIGN
    + (IF c.data_ptr = NULL /\ c1.data_ptr # NULL THEN 1 ELSE 0)

\* C13 - cell reuse: no call frees a cell's buffer or lowers its capacity;
\* a cell's buffer is allocated only to hold a field larger than its
\* capacity (or its first one), so a call that leaves the capacities as
\* they were has allocated no cell buffer; the slot array is allocated only
\* when the slot count grows, once per ROW_BUFFER_INCREMENT slots.
C13_CellReuse ==
    [][/\ row_buffer'.allocated_n >= row_buffer.allocated_n
       /\ row_buffer'.cells_allocs - row_buffer.cells_allocs =
             (row_buffer'.allocated_n - row_buffer.allocated_n)
                \div ROW_BUFFER_INCREMENT
       /\ \A k \in 1..row_buffer.allocated_n :
             LET c  == row_buffer.cells[k]
                 c1 == row_buffer'.cells[k]
             IN  /\ c.data_ptr # NULL => c1.data_ptr # NULL
                 /\ c1.allocated_size >= c.allocated_size
                 /\ c1.allocs >= c.allocs
                 /\ c1.allocs - c.allocs <= AllocsWithin(c, c1)
       /\ \A k \in (row_buffer.allocated_n + 1)..row_buffer'.allocated_n :
             row_buffer'.cells[k].allocs
                <= AllocsWithin(empty_cell, row_buffer'.cells[k])]_vars

\* one parse returned a full batch of one-field rows, all written to the
\* first cell, which was allocated once; the slot array was allocated once
C13_Witness ==
    /\ ret.op = "parse"
    /\ Len(ret.rows) = MAX_ROWS_PER_BATCH
    /\ \A i \in 1..Len(ret.rows) : Len(ret.rows[i]) = 1
    /\ row_buffer.cells[1].allocs = 1
    /\ row_buffer.cells_allocs = 1


\* C14 - parse() returns eob if and only if the input buffer was exhausted
\* when the call began (never fed, zero-length, or consumed >= size), and
\* then changes nothing in the session; with a byte available it returns an
\* ok batch, empty when the bytes pulled completed no record.
C14_ParseEobIffExhausted ==
    [][ret'.op = "parse" =>
          /\ (ret'.res = EOB) <=> is_csv_buffer_empty(csv_buffer)
          /\ ret'.res = EOB =>
                /\ ret'.rows = <<>>
                /\ UNCHANGED <<csv_buffer, parser, row_buffer, capture>>
          /\ ~is_csv_buffer_empty(csv_buffer) =>
                /\ ret'.res = OK
                /\ csv_buffer'.consumed > csv_buffer.consumed]_vars

\* parse pulled bytes that completed no record and returned an empty batch
C14_Witness ==
    /\ ret.op = "parse"
    /\ ret.res = OK
    /\ ret.rows = <<>>
    /\ csv_buffer.consumed > 0
    /\ parser.pstate # ROW_NOT_BEGUN


\* C15 - a rejected feed changes nothing: when feed fails with "csv buffer
\* not empty" the buffer's contents, size and cursor, the tokenizer, the row
\* buffer and the capture are as before, the chunk is not queued, and the
\* rows the following driving calls return are those they would have
\* returned without the feed.
C15_RejectedFeedNoEffect ==
    [][(ret'.op = "feed" /\ ret'.res = BUFFER_NOT_EMPTY) =>
          /\ csv_buffer'.data = csv_buffer.data
          /\ csv_buffer'.size = csv_buffer.size
          /\ csv_buffer'.consumed = csv_buffer.consumed
          /\ UNCHANGED <<parser, row_buffer, capture>>
          /\ LET after == [b |-> csv_buffer', p |-> parser',
                           rb |-> row_buffer', r |-> rec',
                           af |-> assert_failed', rows |-> <<>>, res |-> OK]
             IN  /\ drain_parse(after, capture').rows
                       = drain_parse(Session, capture).rows
                 /\ drain_parse_one_row(after, capture').rows
                       = drain_parse_one_row(Session, capture).rows]_vars

\* a feed was rejected on a session with a capture list set and rows still
\* to come from the bytes it holds
C15_Witness ==
    /\ ret.op = "feed"
    /\ ret.res = BUFFER_NOT_EMPTY
    /\ capture.indexes_ptr # NULL
    /\ row_buffer.allocated_n > 0
    /\ Len(drain_parse(Session, capture).rows) > 0


\* the loop of parse_one_row as it stands when the call begins
LoopStart ==
    [x |-> init_callback_state(parser, row_buffer, rec, assert_failed),
     buf |-> csv_buffer, res |-> RUNNING, taken |-> <<>>, it |-> 1]

\* C16 - input buffer cursor: with a buffer installed 0 <= consumed <= size;
\* a successful feed replaces the contents and resets consumed to 0, and
\* nothing else lowers it; parse advances it by min(MAX_PARSE_SIZE,
\* size - consumed), each pass of parse_one_row's loop by one byte (the call
\* by at most the bytes left: through the completing newline on ok, to the
\* end on eob); set_capture, close and a failed feed leave it alone; it is
\* advanced by what was pulled also when the tokenizer then fails.
C16_CursorInvariant ==
    /\ [](/\ csv_buffer.data_ptr # NULL =>
                /\ 0 <= csv_buffer.consumed
                /\ csv_buffer.consumed <= csv_buffer.size
                /\ csv_buffer.size = Len(csv_buffer.data)
          /\ one_row_pass(LoopStart, capture, 0).buf.consumed
                = csv_buffer.consumed
                  + (IF is_csv_buffer_empty(csv_buffer) THEN 0 ELSE 1))
    /\ [][ret'.res # SIGSEGV =>
            /\ (ret'.op = "feed" /\ ret'.res = OK) =>
                  /\ csv_buffer'.consumed = 0
                  /\ csv_buffer'.data_ptr # NULL
            /\ ~(ret'.op = "feed" /\ ret'.res = OK) =>
                  /\ csv_buffer'.consumed >= csv_buffer.consumed
                  /\ csv_buffer'.size = csv_buffer.size
            /\ ret'.op = "parse" =>
                  csv_buffer'.consumed
                     = csv_buffer.consumed
                       + Min(MAX_PARSE_SIZE, Remaining(csv_buffer))
            /\ ret'.op = "parse_one_row" =>
                  /\ csv_buffer'.consumed
                        <= csv_buffer.consumed + Remaining(csv_buffer)
                  /\ ret'.res = OK =>
                        /\ csv_buffer'.consumed > csv_buffer.consumed
                        /\ csv_buffer.data[csv_buffer'.consumed] = NL
                  /\ ret'.res = EOB =>
                        csv_buffer'.consumed
                           = csv_buffer.consumed + Remaining(csv_buffer)
                  /\ ret'.res = CSV_PARSE_FAILED =>
                        csv_buffer'.consumed > csv_buffer.consumed
            /\ (ret'.op = "feed" /\ ret'.res # OK) =>
                  csv_buffer'.consumed = csv_buffer.consumed
            /\ ret'.op \in {"set_capture", "close"} =>
                  csv_buffer' = csv_buffer]_vars

\* parse advanced the cursor over the two bytes it pulled although the
\* tokenizer failed
C16_Witness ==
    /\ ret.op = "parse"
    /\ ret.res = CSV_PARSE_FAILED
    /\ csv_buffer.size = 2
    /\ csv_buffer.consumed = 2
    /\ hist.failed


\* C17 - a set_capture answered with badarg (improper list, or an element
\* that is not a non-negative integer) leaves the capture setting, a list or
\* none, as it was, and the rows emitted afterwards are those the session
\* would have emitted without the call.
C17_RejectedSetCaptureNoEffect ==
    [][(ret'.op = "set_capture" /\ ret'.res = BADARG) =>
          /\ UNCHANGED <<capture, csv_buffer, parser, row_buffer>>
          /\ LET after == [b |-> csv_buffer', p |-> parser', rb |-> row_buffer',
                           r |-> rec', af |-> assert_failed',
                           rows |-> <<>>, res |-> OK]
             IN  /\ drain_parse(after, capture').rows
                      = drain_parse(Session, capture).rows
                 /\ drain_parse_one_row(after, capture').rows
                      = drain_parse_one_row(Session, capture).rows]_vars

\* a malformed list was rejected while a capture list was in effect and a
\* record is still to be emitted under it
C17_Witness ==
    /\ ret.op = "set_capture"
    /\ ret.res = BADARG
    /\ capture.indexes_ptr # NULL
    /\ Len(capture.indexes) > 0
    /\ Len(drain_parse(Session, capture).rows) > 0


\* C18 - every driving call returns: parse makes one pull of at most
\* MAX_PARSE_SIZE bytes; in parse_one_row every pass of the loop that does
\* not return has advanced the cursor by one byte, so the loop returns (a
\* row, eob or an error) once the unconsumed bytes are used up, wherever the
\* tokenizer may fail; close makes one csv_fini call. No call is left
\* running.
C18_DrivingCallsTerminate ==
    /\ ret.res # RUNNING
    /\ LET n == Remaining(csv_buffer)
           d == parse(MAX_PARSE_SIZE, 0)
       IN  /\ d.res # RUNNING
           /\ d.buf.consumed - csv_buffer.consumed = Len(d.taken)
           /\ Len(d.taken) <= MAX_PARSE_SIZE
           /\ close(0).res # RUNNING
           /\ close(0).buf = csv_buffer
           /\ \A f \in 0..n :
                 /\ \A j \in 0..n :
                       LET m == one_row_loop(LoopStart, capture, j, f)
                       IN  m.res = RUNNING =>
                              /\ m.buf.consumed = csv_buffer.consumed + j
                              /\ m.it = j + 1
                 /\ LET l == one_row_loop(LoopStart, capture, n + 1, f)
                    IN  /\ l.res \in {OK, EOB, CSV_PARSE_FAILED}
                        /\ l.it - 1 <= n
                        /\ l.buf.consumed <= csv_buffer.consumed + n
                 /\ parse_one_row(f, 0).res # RUNNING

\* parse_one_row, the only call on a chunk, returned its first row after at
\* least three passes of its loop
C18_Witness ==
    /\ ret.op = "parse_one_row"
    /\ ret.res = OK
    /\ fed = csv_buffer.data
    /\ out = ret.rows
    /\ csv_buffer.consumed >= 3


Max(a, b) == IF a > b THEN a ELSE b

\* the slots needed to hold n columns
SlotsFor(n) == ((n + ROW_BUFFER_INCREMENT - 1) \div ROW_BUFFER_INCREMENT)
               * ROW_BUFFER_INCREMENT

\* the widest the record in progress was during the last call
Widest ==
    LET S == {row_buffer.cols_used}
             \cup {emitted[i].cols_used : i \in 1..Len(emitted)}
    IN  CHOOSE w \in S : \A v \in S : v <= w

\* C19 - row buffer: cols_used <= allocated_n always; allocated_n is a
\* multiple of ROW_BUFFER_INCREMENT, grows by one increment exactly when a
\* field arrives while cols_used = allocated_n, and never shrinks; growth
\* keeps the buffer, capacity and length of every existing cell; cols_used is
\* incremented by one for every field delivered, captured or not, and is 0
\* after every completed record.
C19_RowBufferInvariant ==
    /\ [](/\ row_buffer.cols_used <= row_buffer.allocated_n
          /\ row_buffer.allocated_n % ROW_BUFFER_INCREMENT = 0
          /\ Len(row_buffer.cells) = row_buffer.allocated_n
          /\ row_buffer.cols_used = Len(rec.fields)
          /\ parser.pstate = ROW_NOT_BEGUN => row_buffer.cols_used = 0
          /\ \A i \in 1..Len(emitted) :
                emitted[i].cols_used = Len(emitted[i].fields)
          /\ \A data \in {<<>>, <<"a">>} :
                LET rb1 == add_cell(row_buffer, capture, data)
                    k   == row_buffer.cols_used + 1
                IN  /\ rb1.cols_used = row_buffer.cols_used + 1
                    /\ rb1.allocated_n
                         = IF row_buffer.cols_used = row_buffer.allocated_n
                           THEN row_buffer.allocated_n + ROW_BUFFER_INCREMENT
                           ELSE row_buffer.allocated_n
                    /\ \A i \in 1..row_buffer.allocated_n :
                          (i # k \/ ~is_output_column(capture, k - 1))
                             => rb1.cells[i] = row_buffer.cells[i])
    /\ [][/\ row_buffer'.allocated_n
               = Max(row_buffer.allocated_n, SlotsFor(Widest'))
          /\ \A i \in 1..row_buffer.allocated_n :
                LET c  == row_buffer.cells[i]
                    c1 == row_buffer'.cells[i]
                IN  /\ c1.allocated_size >= c.allocated_size
                    /\ c.data_ptr # NULL => c1.data_ptr # NULL
                    /\ c1.allocs = c.allocs <=>
                          /\ c1.allocated_size = c.allocated_size
                          /\ c1.data_ptr = c.data_ptr
                    /\ (i > Widest'
                        \/ (/\ capture.indexes_ptr # NULL
                            /\ capture' = capture
                            /\ \A j \in 1..Len(capture.indexes) :
                                  capture.indexes[j] # i - 1))
                          => c1 = c
          /\ ret'.op \in {"feed", "set_capture"} => row_buffer' = row_buffer
         ]_vars

\* the slot array grew to 70 slots under a capture list of column 1 only;
\* column 63, written before the list was set, still holds its field
C19_Witness ==
    /\ row_buffer.allocated_n = 70
    /\ row_buffer.cols_used = 0
    /\ capture.indexes_ptr # NULL
    /\ capture.indexes = <<1>>
    /\ row_buffer.cells[64].data = <<"a">>
    /\ row_buffer.cells[66].data_ptr = NULL
    /\ ret.op = "parse"
    /\ Len(ret.rows) = 1


\* C20 - exactly-once, in-order delivery under mixed driving calls: with the
\* capture setting unchanged and no tokenizer error, whatever the order of
\* feed, parse and parse_one_row, a call pulls the bytes that follow those
\* already pulled and returns exactly the records those bytes complete: none
\* returned before, none skipped, in input order; a feed returns no rows;
\* with the buffer drained every complete record fed has been returned once.
C20_ExactlyOnceInOrder ==
    /\ [](Remaining(csv_buffer) = 0 => out = RefRecords(fed))
    /\ [][LET old    == RefRecords(stream)
              new    == RefRecords(stream')
              pulled == Len(stream') - Len(stream)
          IN  /\ ret'.op \in {"parse", "parse_one_row"} =>
                    /\ pulled >= 0
                    /\ stream' = stream
                                  \o SubSeq(Rest(csv_buffer), 1, pulled)
                    /\ Len(new) >= Len(old)
                    /\ SubSeq(new, 1, Len(old)) = old
                    /\ ret'.rows = SubSeq(new, Len(old) + 1, Len(new))
                    /\ out' = out \o ret'.rows
              /\ ret'.op = "feed" =>
                    /\ ret'.rows = <<>>
                    /\ out' = out
                    /\ stream' = stream]_vars

\* of the two records of one chunk the first was returned by parse_one_row
\* and the second, alone, by the parse that followed
C20_Witness ==
    /\ ret.op = "parse"
    /\ ret.res = OK
    /\ fed = csv_buffer.data
    /\ Len(ret.rows) = 1
    /\ Len(out) = 2
    /\ out[2] = ret.rows[1]
    /\ out[1] # out[2]


\* C21 - no stale data: every non-empty value of an emitted row is the field
\* the tokenizer delivered for that column of the same record; what an
\* earlier record left in a reused cell is never emitted, also when the
\* capture list is replaced while the record is partly assembled.
C21_NoStaleData ==
    \A i \in 1..Len(emitted) :
       LET e == emitted[i]
       IN  \A k \in 1..Len(e.row) :
              e.row[k] # <<>> =>
                 LET col == IF e.cap.indexes_ptr = NULL
                            THEN k - 1
                            ELSE e.cap.indexes[k]
                 IN  /\ col < Len(e.fields)
                     /\ e.row[k] = e.fields[col + 1]

=============================================================================
